---- MODULE Spec2Model ----
(***************************************************************************)
(* The health-alert pipeline of PostProber:                                *)
(*   HealthScheduler   (src/src/backend/jobs/health_scheduler.py)          *)
(*   ConnectionManager (src/src/backend/services/websocket_manager.py)     *)
(*                                                                         *)
(* Python dicts are functions whose DOMAIN is the set of keys present,     *)
(* Python lists are sequences.  Wall-clock time is counted in minutes.     *)
(* Every handler is one action; a coroutine that awaits is taken as one    *)
(* step per call of the handler it awaits (the cycle is one step for the   *)
(* probe/store/status broadcast and one step per _process_platform_alert). *)
(* The per-connection counter alerts_sent is left out of the metadata      *)
(* record: nothing reads it but get_stats.                                 *)
(*                                                                         *)
(* Spec is the scheduler with its cooldown filter over the manager, for    *)
(* the first platform of the list and one WebSocket object; SpecWS and     *)
(* SpecHistory are the manager alone with more WebSocket objects and a     *)
(* source of alerts.  SpecPass is the manager with a broadcast taken one   *)
(* await at a time.  SpecAnalyzer is analyze_health                        *)
(* (src/src/backend/tools/health_monitor.py) as a function of the metrics  *)
(* and of what the text-generation collaborator does.  SpecLife is          *)
(* start/stop of the scheduler with the cycles of its timer and the cycle  *)
(* start_async awaits; FairSpecLife adds that a cycle in progress goes on. *)
(* SpecTrigger adds the manual trigger of the API                          *)
(* (src/src/backend/api/endpoints/health.py) to the cycles of Spec.        *)
(* SpecProbe is the cycle over two platforms with its result list computed *)
(* from what each probe and the collaborator do.  SpecSnapshot takes       *)
(* check_all_platforms one await at a time beside a reader of the          *)
(* last-results snapshot.  SpecAlertPass takes broadcast_health_alert one  *)
(* await at a time beside a second caller; FairSpecHang is a broadcast in  *)
(* which every send completes but, possibly, the one to HungConnection.    *)
(***************************************************************************)
EXTENDS Integers, Sequences, FiniteSets, TLC

\* ---------------------------------------------------------------- bounds
\* number of health-check cycles a behaviour of Spec starts
MaxCycles == 3
\* the clock of Spec stops advancing at this minute
MaxTime == 20
\* number of alerts a behaviour of SpecHistory hands to broadcast_health_alert
MaxAlerts == 52
\* number of alerts a behaviour of SpecWS hands to broadcast_health_alert
MaxWsAlerts == 2
\* number of health-check cycles a behaviour of SpecLife starts
MaxLifeCycles == 2
\* number of health-check cycles a behaviour of SpecProbe starts
MaxProbeCycles == 2

\* ------------------------------------------------------ program constants
alert_cooldown == 15
max_history == 50
history_catchup == 10
interval_minutes == 5
\* fallback rules of analyze_health: "slow" is more than slow_factor times the
\* baseline, "near the rate limit" is more than rate_alert_percent percent
slow_factor == 3
rate_alert_percent == 85
\* baseline.get("response_time", 300)
default_baseline_rt == 300

\* the platforms check_all_platforms probes, in the order of its result list
platforms == <<"twitter", "linkedin", "instagram", "facebook">>
\* the platforms probed under Spec
SchedulerPlatforms == SubSeq(platforms, 1, 1)
Severities == {"info", "warning", "critical"}
\* the WebSocket objects that may connect under SpecWS
Connections == {"ws1", "ws2", "ws3"}
\* the WebSocket objects that may connect under Spec
SchedulerConnections == {"ws1"}
\* the WebSocket object whose send_json may stay pending under FairSpecHang
HungConnection == "ws1"
\* the WebSocket objects that may connect under SpecHistory
HistoryConnections == {"ws1", "ws2"}
\* the minutes the clock may advance by in one step
TickSteps == {interval_minutes}
\* the platforms probed under SpecLife
LifePlatforms == SubSeq(platforms, 1, 2)
\* no WebSocket object connects under SpecLife
LifeConnections == {}
\* the client_id argument of connect: "" is the default None
ClientIds == {"", "web"}

VARIABLES
    now,                  \* datetime.now(), in minutes
    active_connections,   \* ConnectionManager.active_connections
    connection_metadata,  \* ConnectionManager.connection_metadata
    alert_history,        \* ConnectionManager.alert_history
    last_alert_state,     \* HealthScheduler.last_alert_state
    last_alert_time,      \* HealthScheduler.last_alert_time
    last_health_check,    \* HealthScheduler.last_health_check
    pc,                   \* position of check_health_and_alert
    results,              \* its local variable results
    idx,                  \* index of its for loop over results (1-based)
    cycles,               \* cycles started so far
    sent,                 \* send_json calls made by the last step, in order
    inserted,             \* every record handed to broadcast_health_alert
    recovered,            \* platforms reported should_alert false since their last alert
    last_op,              \* what the last step was and what it saw
    broadcast_pass,       \* position and locals of a broadcast taken await by await
    scheduler_running,    \* HealthScheduler.scheduler.running
    jobs,                 \* ids of the jobs registered with HealthScheduler.scheduler
    initial,              \* position and locals of the cycle start_async awaits
    stopped_in_flight,    \* the cycles that were in progress at the last stop()
    analyzer              \* arguments and return value of an analyze_health call

vars == <<now, active_connections, connection_metadata, alert_history,
          last_alert_state, last_alert_time, last_health_check, pc, results,
          idx, cycles, sent, inserted, recovered, last_op, broadcast_pass,
          scheduler_running, jobs, initial, stopped_in_flight, analyzer>>

\* ---------------------------------------------------------------- helpers
Range(s) == {s[i] : i \in 1..Len(s)}

Min(a, b) == IF a <= b THEN a ELSE b

\* list[-n:]
LastN(s, n) == SubSeq(s, Len(s) - Min(n, Len(s)) + 1, Len(s))

\* list.remove(x): removes the first occurrence
RECURSIVE ListRemove(_, _)
ListRemove(s, x) ==
    IF s = <<>> THEN <<>>
    ELSE IF Head(s) = x THEN Tail(s)
    ELSE <<Head(s)>> \o ListRemove(Tail(s), x)

\* dict.pop(k, None)
DictPop(d, k) == [x \in DOMAIN d \ {k} |-> d[x]]

\* dict.get(k, default)
DictGet(d, k, default) == IF k \in DOMAIN d THEN d[k] ELSE default

\* d[k] = v
DictSet(d, k, v) == [x \in DOMAIN d \cup {k} |-> IF x = k THEN v ELSE d[x]]

\* ------------------------------------------------------ ConnectionManager
\* The manager's connection state is the record [active, meta].

\* a variant that leaves the metadata record in place
Disconnect_KeepMetadata(cs, ws) ==
    IF ws \in Range(cs.active)
    THEN [active |-> ListRemove(cs.active, ws), meta |-> cs.meta]
    ELSE cs

\* a variant that removes the newest connection when ws is not in the list
Disconnect_PopLast(cs, ws) ==
    IF ws \in Range(cs.active)
    THEN [active |-> ListRemove(cs.active, ws), meta |-> DictPop(cs.meta, ws)]
    ELSE IF cs.active = <<>> THEN cs
    ELSE [active |-> SubSeq(cs.active, 1, Len(cs.active) - 1),
          meta |-> DictPop(cs.meta, cs.active[Len(cs.active)])]

\* ConnectionManager.disconnect
Disconnect(cs, ws) ==
    IF ws \in Range(cs.active)
    THEN [active |-> ListRemove(cs.active, ws), meta |-> DictPop(cs.meta, ws)]
    ELSE cs

RECURSIVE DisconnectAll(_, _)
DisconnectAll(cs, list) ==
    IF list = <<>> THEN cs
    ELSE DisconnectAll(Disconnect(cs, Head(list)), Tail(list))

Message(to, type, body, ok) == [to |-> to, type |-> type, body |-> body, ok |-> ok]

\* a variant without the try/except around send_json: the pass ends at the
\* first connection whose send_json raises
BroadcastSends_AbortOnFailure(active, type, body, failing) ==
    LET bad == {i \in 1..Len(active) : active[i] \in failing}
        last == IF bad = {} THEN Len(active)
                ELSE CHOOSE i \in bad : \A j \in bad : i <= j
    IN [i \in 1..last |-> Message(active[i], type, body, active[i] \notin failing)]

\* the send_json calls of one broadcast pass; failing is the set of
\* connections whose send_json raises
BroadcastSends(active, type, body, failing) ==
    [i \in 1..Len(active) |-> Message(active[i], type, body, active[i] \notin failing)]

\* the list "disconnected" a broadcast pass collects
BroadcastDisconnected(active, failing) ==
    SelectSeq(active, LAMBDA c : c \in failing)

\* ConnectionManager.broadcast: whether an exception leaves it; the two
\* except clauses catch every exception of send_json
BroadcastRaises(active, failing) == FALSE

\* ConnectionManager.broadcast: the connection state when it returns
Broadcast(cs, failing) ==
    IF cs.active = <<>> THEN cs
    ELSE DisconnectAll(cs, BroadcastDisconnected(cs.active, failing))

\* a variant that trims to the first max_history records
AppendHistory_KeepOldest(history, alert) ==
    LET h == Append(history, alert)
    IN IF Len(h) > max_history THEN SubSeq(h, 1, max_history) ELSE h

\* broadcast_health_alert: the history after the append and the trim
AppendHistory(history, alert) ==
    LET h == Append(history, alert)
    IN IF Len(h) > max_history THEN LastN(h, max_history) ELSE h

\* a variant that sends the whole history
HistoryCatchUp_All(history) == history

\* connect: the slice of the history sent to the new subscriber
HistoryCatchUp(history) == LastN(history, history_catchup)

\* connect: client_id or f"client_{len(self.active_connections)}"
AssignedClientId(client_id, active) ==
    IF client_id # "" THEN client_id ELSE "client_" \o ToString(Len(active))

ConnState == [active |-> active_connections, meta |-> connection_metadata]

\* ------------------------------------------------------- HealthScheduler
\* an analysis as analyze_health returns it (the fields the scheduler reads)
Analyses == [should_alert : BOOLEAN, severity : Severities]

\* the result lists check_all_platforms may return for the platform list P:
\* one result per platform, in the order of P
ResultLists(P) ==
    {[i \in 1..Len(P) |-> [platform |-> P[i], analysis |-> f[i]]] :
        f \in [1..Len(P) -> Analyses]}

\* a value analyze_health may return that is not a dict (json.loads of a
\* JSON array, string, number or null)
NotADict == [not_a_dict |-> TRUE]

\* the analyses of SpecLife: no alert, a warning, and a value that is not a
\* dict
LifeAnalyses ==
    {[should_alert |-> FALSE, severity |-> "info"],
     [should_alert |-> TRUE, severity |-> "warning"],
     NotADict}

\* the result lists of SpecLife
LifeResults ==
    {[i \in 1..Len(LifePlatforms) |->
         [platform |-> LifePlatforms[i], analysis |-> f[i]]] :
        f \in [1..Len(LifePlatforms) -> LifeAnalyses]}

\* _process_platform_alert reads the analysis with dict.get, which a value
\* that is not a dict does not have
IsDict(analysis) == "not_a_dict" \notin DOMAIN analysis

\* a variant that alerts on a critical severity whatever should_alert says
ShouldAlert_OrCritical(result) ==
    result.analysis.should_alert \/ result.analysis.severity = "critical"

\* _process_platform_alert: analysis.get("should_alert", False)
ShouldAlert(result) == DictGet(result.analysis, "should_alert", FALSE)

\* _process_platform_alert: analysis.get("severity", "info")
SeverityOf(result) == DictGet(result.analysis, "severity", "info")

\* a variant without the "always send critical alerts" rule
ShouldSendAlert_NoCriticalRule(platform, severity) ==
    IF platform \notin DOMAIN last_alert_state THEN TRUE
    ELSE IF last_alert_state[platform] # severity THEN TRUE
    ELSE IF platform \notin DOMAIN last_alert_time THEN TRUE
    ELSE now - last_alert_time[platform] >= alert_cooldown

\* a variant whose cooldown test is strict (> instead of >=)
ShouldSendAlert_StrictCooldown(platform, severity) ==
    IF severity = "critical" THEN TRUE
    ELSE IF platform \notin DOMAIN last_alert_state THEN TRUE
    ELSE IF last_alert_state[platform] # severity THEN TRUE
    ELSE IF platform \notin DOMAIN last_alert_time THEN TRUE
    ELSE now - last_alert_time[platform] > alert_cooldown

\* a variant that never applies the cooldown to a repeated severity
ShouldSendAlert_NoCooldown(platform, severity) == TRUE

\* a variant that applies the cooldown to a changed severity as well
ShouldSendAlert_NoTransitionRule(platform, severity) ==
    IF severity = "critical" THEN TRUE
    ELSE IF platform \notin DOMAIN last_alert_time THEN TRUE
    ELSE now - last_alert_time[platform] >= alert_cooldown

\* HealthScheduler._should_send_alert
ShouldSendAlert(platform, severity) ==
    IF severity = "critical" THEN TRUE
    ELSE IF platform \notin DOMAIN last_alert_state THEN TRUE
    ELSE IF last_alert_state[platform] # severity THEN TRUE
    ELSE IF platform \notin DOMAIN last_alert_time THEN TRUE
    ELSE now - last_alert_time[platform] >= alert_cooldown

\* _process_platform_alert: the alert object
MakeAlert(result) ==
    [platform |-> result.platform,
     severity |-> SeverityOf(result),
     timestamp |-> now]

\* a variant that keeps the previous state on should_alert false
ClearAlertState_Keep(platform) == last_alert_state

\* _process_platform_alert: should_alert false clears the previous state
ClearAlertState(platform) == DictPop(last_alert_state, platform)

\* ------------------------------------------------- the scheduler object
\* the job start() registers: check_health_and_alert on
\* IntervalTrigger(minutes=5), id "health_check"
HealthCheckJob == [id |-> "health_check", minutes |-> interval_minutes]

\* a variant that registers the job beside a job of the same id
AddJob_AlwaysAppend(js, job, replace_existing) == Append(js, job)

\* scheduler.add_job(..., id=job.id, replace_existing=replace_existing): a
\* registered job of the same id is replaced
AddJob(js, job, replace_existing) ==
    IF replace_existing /\ \E k \in DOMAIN js : js[k].id = job.id
    THEN [k \in DOMAIN js |-> IF js[k].id = job.id THEN job ELSE js[k]]
    ELSE Append(js, job)

\* the number of registered jobs with the id health_check
HealthCheckJobs(js) == Cardinality({k \in DOMAIN js : js[k].id = "health_check"})

\* the interval timer of the health_check job is pending
TimerArmed == scheduler_running /\ HealthCheckJobs(jobs) > 0

\* the cycles in progress
InFlight ==
    (IF pc # "idle" THEN {"timer"} ELSE {})
        \cup (IF initial.pc # "idle" THEN {"initial"} ELSE {})

\* ------------------------------------------ HealthMonitorTool.analyze_health
\* self.baselines (the response time, in ms)
baselines ==
    [twitter |-> [response_time |-> 250],
     linkedin |-> [response_time |-> 300],
     instagram |-> [response_time |-> 400],
     facebook |-> [response_time |-> 350]]

\* the metrics check_platform_health may hand to analyze_health
Statuses == {"healthy", "degraded", "down"}
ResponseTimes == {0, 750, 751, 1200, 1201, 5000}
RateLimits == {<<0, 1000>>, <<850, 1000>>, <<851, 1000>>, <<180, 200>>, <<0, 0>>}

HealthData ==
    {[platform |-> p, status |-> st, response_time |-> rt,
      rate_limit_used |-> rl[1], rate_limit_total |-> rl[2]] :
        p \in Range(platforms), st \in Statuses, rt \in ResponseTimes,
        rl \in RateLimits}

AssessmentFields ==
    {"should_alert", "severity", "message", "recommended_action", "issue_detected"}

\* JSON objects of the shape the prompt asks for
Assessments ==
    [should_alert : BOOLEAN, severity : Severities, message : {"text"},
     recommended_action : {"text"}, issue_detected : BOOLEAN]

\* other JSON values the collaborator may answer with: an array, an object
\* without should_alert, an object whose severity is not one of the three
OtherJson ==
    {NotADict,
     [severity |-> "critical", message |-> "text"],
     [should_alert |-> TRUE, severity |-> "high", message |-> "text",
      recommended_action |-> "text", issue_detected |-> TRUE]}

\* the body of the answer: a JSON text with its value, or text that is not JSON
Payloads ==
    {[kind |-> "json", value |-> v] : v \in Assessments \cup OtherJson}
        \cup {[kind |-> "prose"]}

\* what precedes the body in response.content, in tokens: "fence" is the
\* code-fence marker of three backquotes
Leads == {<<>>, <<"fence">>, <<"fence", "json">>, <<"fence", "js">>, <<"prose">>}

\* what self.llm.ainvoke(prompt) may do
Responses ==
    {[outcome |-> "raises"], [outcome |-> "timeout"]}
        \cup {[outcome |-> "text", lead |-> l, payload |-> b] :
                 l \in Leads, b \in Payloads}

\* the code-fence stripping, on what precedes the body
StripFences(lead) ==
    IF lead # <<>> /\ Head(lead) = "fence"
    THEN LET inner == Tail(lead)
         IN IF inner # <<>> /\ Head(inner) = "json" THEN Tail(inner) ELSE inner
    ELSE lead

\* json.loads raises
DecodeError == [decode_error |-> TRUE]

\* json.loads(content)
JsonLoads(lead, payload) ==
    IF lead # <<>> \/ payload.kind # "json" THEN DecodeError ELSE payload.value

\* baseline.get("response_time", 300) of self.baselines.get(platform, {})
BaselineRt(platform) ==
    DictGet(DictGet(baselines, platform, <<>>), "response_time", default_baseline_rt)

\* rate_percentage > 85, with rate_percentage 0 when rate_total is 0
RateAboveThreshold(h) ==
    /\ h.rate_limit_total > 0
    /\ h.rate_limit_used * 100 > rate_alert_percent * h.rate_limit_total

FallbackAssessment(should_alert, severity, message, action) ==
    [should_alert |-> should_alert, severity |-> severity, message |-> message,
     recommended_action |-> action, issue_detected |-> should_alert]

\* a variant that tests the response time before the status
Fallback_SlowBeforeDown(h) ==
    IF h.response_time > BaselineRt(h.platform) * slow_factor
    THEN FallbackAssessment(TRUE, "warning", "is running slow", "may be delayed")
    ELSE IF h.status = "down"
    THEN FallbackAssessment(TRUE, "critical", "is currently down", "cannot be published")
    ELSE IF RateAboveThreshold(h)
    THEN FallbackAssessment(TRUE, "info", "rate limit", "may be throttled")
    ELSE FallbackAssessment(FALSE, "info", "is healthy", "no action")

\* analyze_health: the except branch
Fallback(h) ==
    IF h.status = "down"
    THEN FallbackAssessment(TRUE, "critical", "is currently down", "cannot be published")
    ELSE IF h.response_time > BaselineRt(h.platform) * slow_factor
    THEN FallbackAssessment(TRUE, "warning", "is running slow", "may be delayed")
    ELSE IF RateAboveThreshold(h)
    THEN FallbackAssessment(TRUE, "info", "rate limit", "may be throttled")
    ELSE FallbackAssessment(FALSE, "info", "is healthy", "no action")

\* a variant whose except clause catches json.JSONDecodeError only
AnalyzeHealth_CatchDecodeOnly(h, r) ==
    IF r.outcome \in {"raises", "timeout"}
    THEN [raised |-> TRUE, value |-> NotADict]
    ELSE LET analysis == JsonLoads(StripFences(r.lead), r.payload)
         IN IF analysis = DecodeError
            THEN [raised |-> FALSE, value |-> Fallback(h)]
            ELSE [raised |-> FALSE, value |-> analysis]

\* analyze_health(health_data) when the collaborator does r: whether an
\* exception leaves it, and the value it returns
AnalyzeHealth(h, r) ==
    IF r.outcome \in {"raises", "timeout"}
    THEN [raised |-> FALSE, value |-> Fallback(h)]
    ELSE LET analysis == JsonLoads(StripFences(r.lead), r.payload)
         IN IF analysis = DecodeError
            THEN [raised |-> FALSE, value |-> Fallback(h)]
            ELSE [raised |-> FALSE, value |-> analysis]

\* ------------------------- HealthMonitorTool.check_all_platforms, the probe
\* what the probed call of check_platform_health does: it returns, it times
\* out (asyncio.TimeoutError), it raises another exception
ProbeOutcomes == {"ok", "timeout", "error"}

\* mock_scenarios: the simulated delay, in ms; the measured response time
mock_delay_ms ==
    [twitter |-> 250, linkedin |-> 300, instagram |-> 400, facebook |-> 350]

\* rate_limit_data: (rate_used, rate_total)
rate_limit_data ==
    [twitter |-> <<450, 1000>>, linkedin |-> <<80, 100>>,
     instagram |-> <<150, 200>>, facebook |-> <<180, 200>>]

\* a variant that reports a failed probe as degraded
CheckPlatformHealth_FailureIsDegraded(platform, outcome) ==
    [platform |-> platform,
     status |-> IF outcome = "ok" THEN "healthy" ELSE "degraded",
     response_time |-> IF outcome = "ok" THEN mock_delay_ms[platform] ELSE 0,
     error_rate |-> IF outcome = "ok" THEN 0 ELSE 5,
     rate_limit_used |-> IF outcome = "ok" THEN rate_limit_data[platform][1] ELSE 0,
     rate_limit_total |->
         IF outcome = "ok" THEN rate_limit_data[platform][2] ELSE 1000]

\* check_platform_health(platform): the health data it returns; both except
\* clauses return a record instead of raising
CheckPlatformHealth(platform, outcome) ==
    IF outcome = "timeout"
    THEN [platform |-> platform, status |-> "down", response_time |-> 5000,
          error_rate |-> 100, rate_limit_used |-> 0, rate_limit_total |-> 1000]
    ELSE IF outcome = "error"
    THEN [platform |-> platform, status |-> "down", response_time |-> 0,
          error_rate |-> 100, rate_limit_used |-> 0, rate_limit_total |-> 1000]
    ELSE [platform |-> platform, status |-> "healthy",
          response_time |-> mock_delay_ms[platform], error_rate |-> 0,
          rate_limit_used |-> rate_limit_data[platform][1],
          rate_limit_total |-> rate_limit_data[platform][2]]

\* what the collaborator does under SpecProbe: it is unavailable, or it
\* answers with a warning assessment
ProbeResponses ==
    {[outcome |-> "raises"],
     [outcome |-> "text", lead |-> <<>>,
      payload |-> [kind |-> "json",
                   value |-> FallbackAssessment(TRUE, "warning", "text", "text")]]}

\* check_all_platforms over the platform list P: {**health_data, "analysis":
\* analysis} per platform, in the order of P.  The fields outcome and
\* collaborator log what the probe and the collaborator did.
CheckAllPlatforms(P, outcome, response) ==
    [i \in 1..Len(P) |->
        LET h == CheckPlatformHealth(P[i], outcome[i])
        IN h @@ [analysis |-> AnalyzeHealth(h, response[i]).value,
                 outcome |-> outcome[i],
                 collaborator |-> response[i].outcome]]

\* the result lists of SpecProbe
ProbeResults ==
    {CheckAllPlatforms(LifePlatforms, o, r) :
        o \in [1..Len(LifePlatforms) -> ProbeOutcomes],
        r \in [1..Len(LifePlatforms) -> ProbeResponses]}

\* no broadcast is being taken await by await
NoPass == [pc |-> "idle", type |-> "", body |-> <<>>, i |-> 0, cur |-> "",
           disconnected |-> <<>>, sent_to |-> <<>>, stable |-> {}]

\* start_async is not awaiting a cycle
NoCycle == [pc |-> "idle", results |-> <<>>, idx |-> 0]

\* analyze_health has not been called
NoCall == [op |-> "none"]

\* ---------------------------------------------------------------- Init
InitIdle ==
    /\ now = 0
    /\ active_connections = <<>>
    /\ connection_metadata = <<>>
    /\ alert_history = <<>>
    /\ last_alert_state = <<>>
    /\ last_alert_time = <<>>
    /\ last_health_check = <<>>
    /\ pc = "idle"
    /\ results = <<>>
    /\ idx = 0
    /\ cycles = 0
    /\ sent = <<>>
    /\ inserted = <<>>
    /\ recovered = {}
    /\ last_op = [op |-> "init"]
    /\ broadcast_pass = NoPass
    /\ scheduler_running = FALSE
    /\ jobs = <<>>
    /\ initial = NoCycle
    /\ stopped_in_flight = {}

Init == InitIdle /\ analyzer = NoCall

\* a call of analyze_health with any metrics and any collaborator behaviour
InitAnalyzer ==
    /\ InitIdle
    /\ analyzer \in {[op |-> "call", health_data |-> h, response |-> r] :
                        h \in HealthData, r \in Responses}

schedulerVars == <<last_alert_state, last_alert_time, last_health_check, pc,
                   results, idx, cycles, recovered>>

\* the scheduler object and the cycle start_async awaits
lifecycleVars == <<scheduler_running, jobs, initial, stopped_in_flight>>

\* What a broadcast pass that is suspended at an await sees of a step of
\* another coroutine: a connection the step removes was not active for the
\* whole pass.
PassObserves ==
    broadcast_pass' =
        IF broadcast_pass.pc = "await"
        THEN [broadcast_pass EXCEPT !.stable = @ \cap Range(active_connections')]
        ELSE broadcast_pass

\* ---------------------------------------------------------------- actions
\* Each action takes the set U of WebSocket objects of its specification.
\* A cycle takes the list P of platforms probed.

\* time passes between two cycles
Tick ==
    \E d \in TickSteps :
        /\ pc = "idle"
        /\ now + d <= MaxTime
        /\ now' = now + d
        /\ UNCHANGED <<active_connections, connection_metadata, alert_history,
                       inserted, sent, last_op, schedulerVars, broadcast_pass,
                       lifecycleVars, analyzer>>

\* ConnectionManager.connect(websocket, client_id)
Connect(U) ==
    \E ws \in U, client_id \in ClientIds,
       welcome_fails \in BOOLEAN, history_fails \in BOOLEAN :
        /\ ws \notin Range(active_connections)
        /\ LET appended == Append(active_connections, ws)
               cs1 == [active |-> appended,
                       meta |-> DictSet(connection_metadata, ws,
                                   [client_id |-> AssignedClientId(client_id, appended)])]
               cs2 == IF welcome_fails THEN Disconnect(cs1, ws) ELSE cs1
               has_history == alert_history # <<>>
               cs3 == IF has_history /\ history_fails THEN Disconnect(cs2, ws) ELSE cs2
               welcome == Message(ws, "connection", <<>>, ~welcome_fails)
               history == Message(ws, "history", HistoryCatchUp(alert_history),
                                  ~history_fails)
           IN /\ active_connections' = cs3.active
              /\ connection_metadata' = cs3.meta
              /\ sent' = IF has_history THEN <<welcome, history>> ELSE <<welcome>>
              /\ last_op' = [op |-> "connect", ws |-> ws,
                             prev_active |-> active_connections]
        /\ PassObserves
        /\ UNCHANGED <<now, alert_history, inserted, schedulerVars, lifecycleVars,
                       analyzer>>

\* handle_websocket_connection: the receive loop ends, disconnect(websocket)
DisconnectClient(U) ==
    \E ws \in U :
        /\ LET cs == Disconnect(ConnState, ws)
           IN /\ active_connections' = cs.active
              /\ connection_metadata' = cs.meta
        /\ sent' = <<>>
        /\ last_op' = [op |-> "disconnect", ws |-> ws,
                       prev_active |-> active_connections]
        /\ PassObserves
        /\ UNCHANGED <<now, alert_history, inserted, schedulerVars, lifecycleVars,
                       analyzer>>

\* a variant that records the ping in the alert history
PingAll_RecordsPing(U) ==
    \E failing \in SUBSET U :
        /\ LET cs == Broadcast(ConnState, failing)
           IN /\ active_connections' = cs.active
              /\ connection_metadata' = cs.meta
        /\ sent' = BroadcastSends(active_connections, "ping", <<>>, failing)
        /\ alert_history' = AppendHistory(alert_history, [type |-> "ping"])
        /\ last_op' = [op |-> "broadcast", type |-> "ping", failing |-> failing,
                       raised |-> BroadcastRaises(active_connections, failing),
                       prev_active |-> active_connections]
        /\ PassObserves
        /\ UNCHANGED <<now, inserted, schedulerVars, lifecycleVars, analyzer>>

\* ConnectionManager.ping_all
PingAll(U) ==
    \E failing \in SUBSET U :
        /\ LET cs == Broadcast(ConnState, failing)
           IN /\ active_connections' = cs.active
              /\ connection_metadata' = cs.meta
        /\ sent' = BroadcastSends(active_connections, "ping", <<>>, failing)
        /\ last_op' = [op |-> "broadcast", type |-> "ping", failing |-> failing,
                       raised |-> BroadcastRaises(active_connections, failing),
                       prev_active |-> active_connections]
        /\ PassObserves
        /\ UNCHANGED <<now, alert_history, inserted, schedulerVars, lifecycleVars,
                       analyzer>>

\* a variant that broadcasts the status update only when some platform's
\* assessment asks for an alert
StoreAndBroadcast_OnlyOnAlert(res, failing) ==
    LET alerting == \E i \in 1..Len(res) : ShouldAlert(res[i])
        cs == IF alerting THEN Broadcast(ConnState, failing) ELSE ConnState
    IN /\ last_health_check' = res
       /\ active_connections' = cs.active
       /\ connection_metadata' = cs.meta
       /\ sent' = IF alerting
                  THEN BroadcastSends(active_connections, "health_update", res,
                                      failing)
                  ELSE <<>>
       /\ last_op' = [op |-> "broadcast", type |-> "health_update",
                      failing |-> failing,
                      raised |-> BroadcastRaises(active_connections, failing),
                      prev_active |-> active_connections]
       /\ UNCHANGED <<now, alert_history, inserted, last_alert_state,
                      last_alert_time, recovered>>

\* check_health_and_alert up to its for loop, once check_all_platforms has
\* returned res: store, status broadcast
StoreAndBroadcast(res, failing) ==
    /\ last_health_check' = res
    /\ LET cs == Broadcast(ConnState, failing)
       IN /\ active_connections' = cs.active
          /\ connection_metadata' = cs.meta
    /\ sent' = BroadcastSends(active_connections, "health_update", res, failing)
    /\ last_op' = [op |-> "broadcast", type |-> "health_update",
                   failing |-> failing,
                   raised |-> BroadcastRaises(active_connections, failing),
                   prev_active |-> active_connections]
    /\ UNCHANGED <<now, alert_history, inserted, last_alert_state, last_alert_time,
                   recovered>>

\* a variant in which a suppressed alert restarts the cooldown
ProcessResult_SuppressionRestartsCooldown(result, failing) ==
    LET platform == result.platform
        reported == DictGet(result.analysis, "should_alert", FALSE)
        should_alert == ShouldAlert(result)
        severity == SeverityOf(result)
        alert == MakeAlert(result)
        send == should_alert /\ ShouldSendAlert(platform, severity)
        cs == IF send THEN Broadcast(ConnState, failing) ELSE ConnState
    IN /\ alert_history' =
             IF send THEN AppendHistory(alert_history, alert) ELSE alert_history
       /\ inserted' = IF send THEN Append(inserted, alert) ELSE inserted
       /\ active_connections' = cs.active
       /\ connection_metadata' = cs.meta
       /\ sent' = IF send
                  THEN BroadcastSends(active_connections, "health_alert",
                                      <<alert>>, failing)
                  ELSE <<>>
       /\ last_alert_state' =
             IF ~should_alert THEN ClearAlertState(platform)
             ELSE IF send THEN DictSet(last_alert_state, platform, severity)
             ELSE last_alert_state
       /\ last_alert_time' =
             IF should_alert THEN DictSet(last_alert_time, platform, now)
             ELSE last_alert_time
       /\ recovered' =
             IF ~reported THEN recovered \cup {platform}
             ELSE IF send THEN recovered \ {platform}
             ELSE recovered
       /\ last_op' = [op |-> "process", platform |-> platform,
                      should_alert |-> reported,
                      severity |-> DictGet(result.analysis, "severity", "info"),
                      at |-> now,
                      failing |-> failing,
                      prev_state |-> last_alert_state,
                      prev_time |-> last_alert_time,
                      prev_history |-> alert_history,
                      prev_inserted |-> inserted,
                      prev_recovered |-> recovered,
                      prev_active |-> active_connections]

\* _process_platform_alert(result)
ProcessResult(result, failing) ==
    LET platform == result.platform
        reported == DictGet(result.analysis, "should_alert", FALSE)
        should_alert == ShouldAlert(result)
        severity == SeverityOf(result)
        alert == MakeAlert(result)
        send == should_alert /\ ShouldSendAlert(platform, severity)
        cs == IF send THEN Broadcast(ConnState, failing) ELSE ConnState
    IN /\ alert_history' =
             IF send THEN AppendHistory(alert_history, alert) ELSE alert_history
       /\ inserted' = IF send THEN Append(inserted, alert) ELSE inserted
       /\ active_connections' = cs.active
       /\ connection_metadata' = cs.meta
       /\ sent' = IF send
                  THEN BroadcastSends(active_connections, "health_alert",
                                      <<alert>>, failing)
                  ELSE <<>>
       /\ last_alert_state' =
             IF ~should_alert THEN ClearAlertState(platform)
             ELSE IF send THEN DictSet(last_alert_state, platform, severity)
             ELSE last_alert_state
       /\ last_alert_time' =
             IF send THEN DictSet(last_alert_time, platform, now)
             ELSE last_alert_time
       /\ recovered' =
             IF ~reported THEN recovered \cup {platform}
             ELSE IF send THEN recovered \ {platform}
             ELSE recovered
       /\ last_op' = [op |-> "process", platform |-> platform,
                      should_alert |-> reported,
                      severity |-> DictGet(result.analysis, "severity", "info"),
                      at |-> now,
                      failing |-> failing,
                      prev_state |-> last_alert_state,
                      prev_time |-> last_alert_time,
                      prev_history |-> alert_history,
                      prev_inserted |-> inserted,
                      prev_recovered |-> recovered,
                      prev_active |-> active_connections]

\* check_health_and_alert up to its for loop: probe, store, status broadcast;
\* R is the set of result lists check_all_platforms may return
CheckHealthAndAlert(U, R) ==
    \E res \in R, failing \in SUBSET U :
        /\ pc = "idle"
        /\ cycles < MaxCycles
        /\ cycles' = cycles + 1
        /\ results' = res
        /\ StoreAndBroadcast(res, failing)
        /\ pc' = "alerts"
        /\ idx' = 1
        /\ PassObserves
        /\ UNCHANGED <<lifecycleVars, analyzer>>

\* one iteration of the for loop: _process_platform_alert(results[idx])
ProcessPlatformAlert(U) ==
    \E failing \in SUBSET U :
        /\ pc = "alerts"
        /\ IsDict(results[idx].analysis)
        /\ ProcessResult(results[idx], failing)
        /\ IF idx < Len(results)
           THEN idx' = idx + 1 /\ pc' = "alerts"
           ELSE idx' = 0 /\ pc' = "idle"
        /\ PassObserves
        /\ UNCHANGED <<now, last_health_check, results, cycles, lifecycleVars,
                       analyzer>>

\* POST /trigger, trigger_health_check: check_all_platforms, then
\* broadcast_health_update(results); the results are returned to the caller
TriggerHealthCheck(U, R) ==
    \E res \in R, failing \in SUBSET U :
        /\ LET cs == Broadcast(ConnState, failing)
           IN /\ active_connections' = cs.active
              /\ connection_metadata' = cs.meta
        /\ sent' = BroadcastSends(active_connections, "health_update", res, failing)
        /\ last_op' = [op |-> "trigger", results |-> res, at |-> now,
                       failing |-> failing,
                       prev_state |-> last_alert_state,
                       prev_time |-> last_alert_time,
                       prev_inserted |-> inserted,
                       prev_active |-> active_connections]
        /\ PassObserves
        /\ UNCHANGED <<now, alert_history, inserted, schedulerVars, lifecycleVars,
                       analyzer>>

\* ConnectionManager.broadcast_health_alert(alert), called once per cycle
\* for a platform that stays down: every cycle emits a critical alert
BroadcastHealthAlert(U, limit) ==
    \E failing \in SUBSET U :
        /\ Len(inserted) < limit
        /\ now' = now + interval_minutes
        /\ LET alert == [platform |-> platforms[1], severity |-> "critical",
                         timestamp |-> now']
               cs == Broadcast(ConnState, failing)
           IN /\ alert_history' = AppendHistory(alert_history, alert)
              /\ inserted' = Append(inserted, alert)
              /\ active_connections' = cs.active
              /\ connection_metadata' = cs.meta
              /\ sent' = BroadcastSends(active_connections, "health_alert",
                                        <<alert>>, failing)
              /\ last_op' = [op |-> "broadcast", type |-> "health_alert",
                             failing |-> failing,
                             raised |-> BroadcastRaises(active_connections, failing),
                             prev_active |-> active_connections]
        /\ PassObserves
        /\ UNCHANGED <<schedulerVars, lifecycleVars, analyzer>>

\* handle_websocket_connection answers get_stats of the client of ws:
\* send_personal_message(stats, ws)
SendPersonalMessage(U) ==
    \E ws \in U, fails \in BOOLEAN :
        /\ ws \in Range(active_connections)
        /\ LET cs == IF fails THEN Disconnect(ConnState, ws) ELSE ConnState
           IN /\ active_connections' = cs.active
              /\ connection_metadata' = cs.meta
        /\ sent' = <<Message(ws, "stats", <<>>, ~fails)>>
        /\ last_op' = [op |-> "personal", ws |-> ws, failed |-> fails,
                       prev_active |-> active_connections]
        /\ PassObserves
        /\ UNCHANGED <<now, alert_history, inserted, schedulerVars, lifecycleVars,
                       analyzer>>

\* ConnectionManager.broadcast taken await by await.  The for loop iterates
\* over the list active_connections itself: the iterator holds the number i
\* of elements it has yielded and yields element i + 1 of the list as it is
\* when the loop resumes.
\* BroadcastStart: from the call to the first await of send_json.
BroadcastStart(U) ==
    /\ broadcast_pass.pc \in {"idle", "done"}
    /\ IF active_connections = <<>>
       THEN /\ broadcast_pass' = [NoPass EXCEPT !.pc = "done", !.type = "ping"]
            /\ sent' = <<>>
       ELSE /\ broadcast_pass' =
                 [pc |-> "await", type |-> "ping", body |-> <<>>, i |-> 1,
                  cur |-> active_connections[1], disconnected |-> <<>>,
                  sent_to |-> <<active_connections[1]>>,
                  stable |-> Range(active_connections)]
            /\ sent' = <<Message(active_connections[1], "ping", <<>>, TRUE)>>
    /\ last_op' = [op |-> "broadcast_step"]
    /\ UNCHANGED <<now, active_connections, connection_metadata, alert_history,
                   inserted, schedulerVars, lifecycleVars, analyzer>>

\* BroadcastResume: send_json returns or raises; the loop goes on to the next
\* await of send_json, or ends and the connections collected in
\* "disconnected" are disconnected.
BroadcastResume(U) ==
    \E fails \in BOOLEAN :
        /\ broadcast_pass.pc = "await"
        /\ LET disconnected == IF fails
                               THEN Append(broadcast_pass.disconnected,
                                           broadcast_pass.cur)
                               ELSE broadcast_pass.disconnected
               i == broadcast_pass.i
           IN IF i < Len(active_connections)
              THEN /\ broadcast_pass' =
                        [broadcast_pass EXCEPT
                            !.i = i + 1,
                            !.cur = active_connections[i + 1],
                            !.disconnected = disconnected,
                            !.sent_to = Append(@, active_connections[i + 1])]
                   /\ sent' = <<Message(active_connections[i + 1],
                                         broadcast_pass.type, broadcast_pass.body,
                                         TRUE)>>
                   /\ UNCHANGED <<active_connections, connection_metadata>>
              ELSE /\ broadcast_pass' =
                        [broadcast_pass EXCEPT !.pc = "done", !.cur = "", !.i = 0,
                                               !.disconnected = <<>>]
                   /\ sent' = <<>>
                   /\ LET cs == DisconnectAll(ConnState, disconnected)
                      IN /\ active_connections' = cs.active
                         /\ connection_metadata' = cs.meta
        /\ last_op' = [op |-> "broadcast_step"]
        /\ UNCHANGED <<now, alert_history, inserted, schedulerVars, lifecycleVars,
                       analyzer>>

\* broadcast_health_alert(alert) taken await by await, from the call to the
\* first await of send_json: the record is appended and the history trimmed,
\* then broadcast begins.  The alert is of the second platform.
BroadcastHealthAlertStart(U, limit) ==
    /\ broadcast_pass.pc \in {"idle", "done"}
    /\ Len(inserted) < limit
    /\ LET alert == [platform |-> platforms[2], severity |-> "critical",
                     timestamp |-> now]
       IN /\ alert_history' = AppendHistory(alert_history, alert)
          /\ inserted' = Append(inserted, alert)
          /\ IF active_connections = <<>>
             THEN /\ broadcast_pass' =
                       [NoPass EXCEPT !.pc = "done", !.type = "health_alert",
                                      !.body = <<alert>>]
                  /\ sent' = <<>>
             ELSE /\ broadcast_pass' =
                       [pc |-> "await", type |-> "health_alert",
                        body |-> <<alert>>, i |-> 1,
                        cur |-> active_connections[1], disconnected |-> <<>>,
                        sent_to |-> <<active_connections[1]>>,
                        stable |-> Range(active_connections)]
                  /\ sent' = <<Message(active_connections[1], "health_alert",
                                       <<alert>>, TRUE)>>
    /\ last_op' = [op |-> "broadcast_step"]
    /\ UNCHANGED <<now, active_connections, connection_metadata, schedulerVars,
                   lifecycleVars, analyzer>>

\* HealthScheduler.start(): the effect on the scheduler object
StartScheduler ==
    IF scheduler_running
    THEN UNCHANGED <<scheduler_running, jobs, stopped_in_flight>>
    ELSE /\ jobs' = AddJob(jobs, HealthCheckJob, TRUE)
         /\ scheduler_running' = TRUE
         /\ stopped_in_flight' = {}

\* HealthScheduler.start()
Start ==
    /\ StartScheduler
    /\ sent' = <<>>
    /\ last_op' = [op |-> "start", was_running |-> scheduler_running,
                   prev_jobs |-> jobs]
    /\ UNCHANGED <<now, active_connections, connection_metadata, alert_history,
                   inserted, schedulerVars, broadcast_pass, initial, analyzer>>

\* HealthScheduler.start_async() up to the first await of the cycle it runs:
\* start(), then check_health_and_alert() is entered
StartAsync ==
    /\ initial.pc = "idle"
    /\ cycles < MaxLifeCycles
    /\ StartScheduler
    /\ initial' = [pc |-> "probe", results |-> <<>>, idx |-> 0]
    /\ cycles' = cycles + 1
    /\ sent' = <<>>
    /\ last_op' = [op |-> "start", was_running |-> scheduler_running,
                   prev_jobs |-> jobs]
    /\ UNCHANGED <<now, active_connections, connection_metadata, alert_history,
                   inserted, last_alert_state, last_alert_time, last_health_check,
                   pc, results, idx, recovered, broadcast_pass, analyzer>>

\* a variant that cancels the cycle the health_check job is running
Stop_CancelsRunningJob ==
    /\ IF scheduler_running
       THEN /\ scheduler_running' = FALSE
            /\ jobs' \in {jobs, <<>>}
            /\ stopped_in_flight' = InFlight
            /\ pc' = "idle" /\ idx' = 0
       ELSE UNCHANGED <<scheduler_running, jobs, stopped_in_flight, pc, idx>>
    /\ sent' = <<>>
    /\ last_op' = [op |-> "stop", was_running |-> scheduler_running,
                   prev_jobs |-> jobs]
    /\ UNCHANGED <<now, active_connections, connection_metadata, alert_history,
                   inserted, last_alert_state, last_alert_time, last_health_check,
                   results, cycles, recovered, broadcast_pass, initial, analyzer>>

\* HealthScheduler.stop(): scheduler.shutdown(wait=True).  The scheduler is
\* stopped and its timer with it; the job store is closed, with or without
\* the job left in it; wait=True lets a cycle that is running go on.
Stop ==
    /\ IF scheduler_running
       THEN /\ scheduler_running' = FALSE
            /\ jobs' \in {jobs, <<>>}
            /\ stopped_in_flight' = InFlight
       ELSE UNCHANGED <<scheduler_running, jobs, stopped_in_flight>>
    /\ sent' = <<>>
    /\ last_op' = [op |-> "stop", was_running |-> scheduler_running,
                   prev_jobs |-> jobs]
    /\ UNCHANGED <<now, active_connections, connection_metadata, alert_history,
                   inserted, schedulerVars, broadcast_pass, initial, analyzer>>

\* the interval trigger of the health_check job fires: the scheduler runs
\* check_health_and_alert, unless the run of an earlier tick is still going
TimerFires(U, R) ==
    /\ TimerArmed
    /\ cycles < MaxLifeCycles
    /\ CheckHealthAndAlert(U, R)

\* a timer-driven cycle of SpecProbe begins
ProbeCycle(U) ==
    /\ cycles < MaxProbeCycles
    /\ CheckHealthAndAlert(U, ProbeResults)

\* a variant that skips the platform whose processing raised and goes on
\* with the next one
CycleRaises_SkipsPlatform ==
    /\ pc = "alerts"
    /\ ~IsDict(results[idx].analysis)
    /\ IF idx < Len(results)
       THEN idx' = idx + 1 /\ pc' = "alerts"
       ELSE idx' = 0 /\ pc' = "idle"
    /\ sent' = <<>>
    /\ last_op' = [op |-> "cycle_error", slot |-> "timer",
                   platform |-> results[idx].platform,
                   was_running |-> scheduler_running, prev_jobs |-> jobs]
    /\ UNCHANGED <<now, active_connections, connection_metadata, alert_history,
                   inserted, last_alert_state, last_alert_time, last_health_check,
                   results, cycles, recovered, broadcast_pass, lifecycleVars,
                   analyzer>>

\* a variant whose except clause shuts the scheduler down
CycleRaises_StopsScheduler ==
    /\ pc = "alerts"
    /\ ~IsDict(results[idx].analysis)
    /\ pc' = "idle"
    /\ idx' = 0
    /\ scheduler_running' = FALSE
    /\ sent' = <<>>
    /\ last_op' = [op |-> "cycle_error", slot |-> "timer",
                   platform |-> results[idx].platform,
                   was_running |-> scheduler_running, prev_jobs |-> jobs]
    /\ UNCHANGED <<now, active_connections, connection_metadata, alert_history,
                   inserted, last_alert_state, last_alert_time, last_health_check,
                   results, cycles, recovered, broadcast_pass, jobs, initial,
                   stopped_in_flight, analyzer>>

\* _process_platform_alert(results[idx]) raises (analysis.get on a value that
\* is not a dict); the except clause of check_health_and_alert logs the
\* exception and the cycle is over
CycleRaises ==
    /\ pc = "alerts"
    /\ ~IsDict(results[idx].analysis)
    /\ pc' = "idle"
    /\ idx' = 0
    /\ sent' = <<>>
    /\ last_op' = [op |-> "cycle_error", slot |-> "timer",
                   platform |-> results[idx].platform,
                   was_running |-> scheduler_running, prev_jobs |-> jobs]
    /\ UNCHANGED <<now, active_connections, connection_metadata, alert_history,
                   inserted, last_alert_state, last_alert_time, last_health_check,
                   results, cycles, recovered, broadcast_pass, lifecycleVars,
                   analyzer>>

\* the cycle start_async awaits, up to its for loop: probe, store, status
\* broadcast
InitialCheckHealthAndAlert(U, R) ==
    \E res \in R, failing \in SUBSET U :
        /\ initial.pc = "probe"
        /\ StoreAndBroadcast(res, failing)
        /\ initial' = [pc |-> "alerts", results |-> res, idx |-> 1]
        /\ PassObserves
        /\ UNCHANGED <<pc, results, idx, cycles, scheduler_running, jobs,
                       stopped_in_flight, analyzer>>

\* the cycle start_async awaits: one iteration of its for loop
InitialProcessPlatformAlert(U) ==
    \E failing \in SUBSET U :
        /\ initial.pc = "alerts"
        /\ IsDict(initial.results[initial.idx].analysis)
        /\ ProcessResult(initial.results[initial.idx], failing)
        /\ initial' = IF initial.idx < Len(initial.results)
                      THEN [initial EXCEPT !.idx = @ + 1]
                      ELSE NoCycle
        /\ PassObserves
        /\ UNCHANGED <<now, last_health_check, pc, results, idx, cycles,
                       scheduler_running, jobs, stopped_in_flight, analyzer>>

\* the cycle start_async awaits: _process_platform_alert raises and the
\* except clause of check_health_and_alert ends the cycle
InitialCycleRaises ==
    /\ initial.pc = "alerts"
    /\ ~IsDict(initial.results[initial.idx].analysis)
    /\ initial' = NoCycle
    /\ sent' = <<>>
    /\ last_op' = [op |-> "cycle_error", slot |-> "initial",
                   platform |-> initial.results[initial.idx].platform,
                   was_running |-> scheduler_running, prev_jobs |-> jobs]
    /\ UNCHANGED <<now, active_connections, connection_metadata, alert_history,
                   inserted, schedulerVars, broadcast_pass, scheduler_running,
                   jobs, stopped_in_flight, analyzer>>

\* the analyses of SpecSnapshot
SnapshotAnalyses ==
    {[should_alert |-> FALSE, severity |-> "info"],
     [should_alert |-> TRUE, severity |-> "warning"]}

\* a variant that publishes each result as soon as it is analyzed
AnalyzeNext_PublishesEachResult(P) ==
    \E a \in SnapshotAnalyses :
        /\ initial.pc = "probe"
        /\ Len(initial.results) < Len(P)
        /\ LET k == Len(initial.results) + 1
               result == [platform |-> P[k], analysis |-> a, last_check |-> cycles]
           IN /\ initial' = [initial EXCEPT !.results = Append(@, result)]
              /\ last_health_check' =
                    [i \in 1..Len(P) |->
                        IF i = k \/ i > Len(last_health_check) THEN result
                        ELSE last_health_check[i]]
        /\ sent' = <<>>
        /\ last_op' = [op |-> "analyze"]
        /\ UNCHANGED <<now, active_connections, connection_metadata, alert_history,
                       inserted, last_alert_state, last_alert_time,
                       pc, results, idx, cycles, recovered, broadcast_pass,
                       scheduler_running, jobs, stopped_in_flight, analyzer>>

\* check_all_platforms inside the cycle start_async awaits, one await of
\* analyze_health at a time: the next platform's result is appended to the
\* local list analyzed_results (initial.results while the cycle probes).
\* last_check is the time of the probe, here the number of the cycle.
AnalyzeNext(P) ==
    \E a \in SnapshotAnalyses :
        /\ initial.pc = "probe"
        /\ Len(initial.results) < Len(P)
        /\ LET k == Len(initial.results) + 1
               result == [platform |-> P[k], analysis |-> a, last_check |-> cycles]
           IN initial' = [initial EXCEPT !.results = Append(@, result)]
        /\ sent' = <<>>
        /\ last_op' = [op |-> "analyze"]
        /\ UNCHANGED <<now, active_connections, connection_metadata, alert_history,
                       inserted, schedulerVars, broadcast_pass, scheduler_running,
                       jobs, stopped_in_flight, analyzer>>

\* check_all_platforms raises inside the cycle start_async awaits: the
\* except clause of check_health_and_alert logs it and the cycle is over
ProbeRaises ==
    /\ initial.pc = "probe"
    /\ initial' = NoCycle
    /\ sent' = <<>>
    /\ last_op' = [op |-> "probe_error", prev_snapshot |-> last_health_check]
    /\ UNCHANGED <<now, active_connections, connection_metadata, alert_history,
                   inserted, schedulerVars, broadcast_pass, scheduler_running,
                   jobs, stopped_in_flight, analyzer>>

\* check_all_platforms has returned the list for the platforms P:
\* self.last_health_check = results, then the status broadcast
StoreResults(U, P) ==
    \E failing \in SUBSET U :
        /\ initial.pc = "probe"
        /\ Len(initial.results) = Len(P)
        /\ StoreAndBroadcast(initial.results, failing)
        /\ initial' = [initial EXCEPT !.pc = "alerts", !.idx = 1]
        /\ PassObserves
        /\ UNCHANGED <<pc, results, idx, cycles, scheduler_running, jobs,
                       stopped_in_flight, analyzer>>

\* GET /status reads the snapshot: get_last_results()
GetLastResults ==
    /\ last_op' = [op |-> "read", value |-> last_health_check,
                   cycle_pc |-> initial.pc]
    /\ sent' = <<>>
    /\ UNCHANGED <<now, active_connections, connection_metadata, alert_history,
                   inserted, schedulerVars, broadcast_pass, lifecycleVars,
                   analyzer>>

\* analyze_health returns (or raises)
AnalyzeHealthReturns ==
    /\ analyzer.op = "call"
    /\ LET out == AnalyzeHealth(analyzer.health_data, analyzer.response)
       IN analyzer' = [op |-> "return", health_data |-> analyzer.health_data,
                       response |-> analyzer.response,
                       raised |-> out.raised, analysis |-> out.value]
    /\ UNCHANGED <<now, active_connections, connection_metadata, alert_history,
                   sent, inserted, last_op, schedulerVars, broadcast_pass,
                   lifecycleVars>>

Next ==
    \/ Tick
    \/ Connect(SchedulerConnections)
    \/ DisconnectClient(SchedulerConnections)
    \/ PingAll(SchedulerConnections)
    \/ CheckHealthAndAlert(SchedulerConnections, ResultLists(SchedulerPlatforms))
    \/ ProcessPlatformAlert(SchedulerConnections)

Spec == Init /\ [][Next]_vars

\* The connection manager alone, with every WebSocket object of Connections
\* and a source of a few alerts.
NextWS ==
    \/ Connect(Connections)
    \/ DisconnectClient(Connections)
    \/ PingAll(Connections)
    \/ SendPersonalMessage(Connections)
    \/ BroadcastHealthAlert(Connections, MaxWsAlerts)

SpecWS == Init /\ [][NextWS]_vars

\* The connection manager alone, with a source of alerts that fills the
\* history beyond max_history.
NextHistory ==
    \/ Connect(HistoryConnections)
    \/ DisconnectClient(HistoryConnections)
    \/ PingAll(HistoryConnections)
    \/ BroadcastHealthAlert(HistoryConnections, MaxAlerts)

SpecHistory == Init /\ [][NextHistory]_vars

\* The connection manager with one broadcast at a time taken await by await,
\* while the handlers of the connections connect, disconnect and answer.
NextPass ==
    \/ Connect(Connections)
    \/ DisconnectClient(Connections)
    \/ SendPersonalMessage(Connections)
    \/ BroadcastStart(Connections)
    \/ BroadcastResume(Connections)

SpecPass == Init /\ [][NextPass]_vars

\* The scheduler object, the cycles its timer starts and the cycle
\* start_async awaits, over two platforms and without subscribers.
NextLife ==
    \/ Start
    \/ StartAsync
    \/ Stop
    \/ TimerFires(LifeConnections, LifeResults)
    \/ ProcessPlatformAlert(LifeConnections)
    \/ CycleRaises
    \/ InitialCheckHealthAndAlert(LifeConnections, LifeResults)
    \/ InitialProcessPlatformAlert(LifeConnections)
    \/ InitialCycleRaises

SpecLife == Init /\ [][NextLife]_vars

\* The event loop resumes a cycle whose await has returned: a cycle that is
\* in progress takes its next step.
FairSpecLife ==
    /\ SpecLife
    /\ WF_vars(ProcessPlatformAlert(LifeConnections) \/ CycleRaises)
    /\ WF_vars(InitialCheckHealthAndAlert(LifeConnections, LifeResults))
    /\ WF_vars(InitialProcessPlatformAlert(LifeConnections) \/ InitialCycleRaises)

\* The timer-driven cycles and the manual trigger of the API, over one
\* platform and one subscriber.
NextTrigger ==
    \/ Tick
    \/ Connect(SchedulerConnections)
    \/ DisconnectClient(SchedulerConnections)
    \/ CheckHealthAndAlert(SchedulerConnections, ResultLists(SchedulerPlatforms))
    \/ ProcessPlatformAlert(SchedulerConnections)
    \/ TriggerHealthCheck(SchedulerConnections, ResultLists(SchedulerPlatforms))

SpecTrigger == Init /\ [][NextTrigger]_vars

\* The cycles over two platforms and one subscriber, with the result list
\* computed from what each probe and the collaborator do.  The clock does
\* not advance: every cycle falls inside the cooldown window of the first.
NextProbe ==
    \/ Connect(SchedulerConnections)
    \/ DisconnectClient(SchedulerConnections)
    \/ ProbeCycle(SchedulerConnections)
    \/ ProcessPlatformAlert(SchedulerConnections)

SpecProbe == Init /\ [][NextProbe]_vars

\* The manager with one broadcast at a time taken await by await, over the
\* WebSocket objects of HistoryConnections.
NextHang ==
    \/ Connect(HistoryConnections)
    \/ DisconnectClient(HistoryConnections)
    \/ BroadcastStart(HistoryConnections)
    \/ BroadcastResume(HistoryConnections)

SpecHang == Init /\ [][NextHang]_vars

\* the pending send_json is not the one to HungConnection, and it returns or
\* raises
BroadcastResumeDelivered ==
    /\ broadcast_pass.cur # HungConnection
    /\ BroadcastResume(HistoryConnections)

\* send_json to a subscriber that takes delivery returns or raises, and the
\* event loop then resumes the broadcast; send_json to HungConnection may
\* stay pending for ever.
FairSpecHang == SpecHang /\ WF_vars(BroadcastResumeDelivered)

\* The cycles start_async awaits with check_all_platforms taken one await
\* at a time, and a reader of the last-results snapshot.
NextSnapshot ==
    \/ StartAsync
    \/ AnalyzeNext(LifePlatforms)
    \/ ProbeRaises
    \/ StoreResults(LifeConnections, LifePlatforms)
    \/ InitialProcessPlatformAlert(LifeConnections)
    \/ GetLastResults

SpecSnapshot == Init /\ [][NextSnapshot]_vars

\* The manager with the alerts of two cycles that are in progress at once
\* (the timer's and the one start_async awaits): the broadcast_health_alert
\* of one is taken await by await, that of the other completes within one
\* step of it.
NextAlertPass ==
    \/ Connect(HistoryConnections)
    \/ DisconnectClient(HistoryConnections)
    \/ BroadcastHealthAlertStart(HistoryConnections, MaxWsAlerts)
    \/ BroadcastResume(HistoryConnections)
    \/ BroadcastHealthAlert(HistoryConnections, MaxWsAlerts)

SpecAlertPass == Init /\ [][NextAlertPass]_vars

\* analyze_health alone, over every metrics record and collaborator behaviour
NextAnalyzer == AnalyzeHealthReturns

SpecAnalyzer == InitAnalyzer /\ [][NextAnalyzer]_vars

\* ------------------------------------------------- the cooldown filter
\* The last step was _process_platform_alert.
Processed == last_op.op = "process"

\* the alert that step builds when it emits
ProcessedAlert ==
    [platform |-> last_op.platform, severity |-> last_op.severity,
     timestamp |-> last_op.at]

\* That step emitted: one record went to broadcast_health_alert, it is the
\* newest of the history, and one health_alert carrying it was sent to each
\* subscriber that was active, in order.
Emitted ==
    /\ inserted = Append(last_op.prev_inserted, ProcessedAlert)
    /\ alert_history # <<>>
    /\ alert_history[Len(alert_history)] = ProcessedAlert
    /\ Len(sent) = Len(last_op.prev_active)
    /\ \A i \in 1..Len(sent) :
          /\ sent[i].to = last_op.prev_active[i]
          /\ sent[i].type = "health_alert"
          /\ sent[i].body = <<ProcessedAlert>>

\* That step did not emit: no record, no history change, no message.
NotEmitted ==
    /\ inserted = last_op.prev_inserted
    /\ alert_history = last_op.prev_history
    /\ sent = <<>>

\* the stored state of the processed platform is the alert just emitted
StateRecorded ==
    /\ last_op.platform \in DOMAIN last_alert_state
    /\ last_alert_state[last_op.platform] = last_op.severity
    /\ last_op.platform \in DOMAIN last_alert_time
    /\ last_alert_time[last_op.platform] = last_op.at

\* the step saw a stored severity equal to the assessment's
SameSeverityStored ==
    /\ last_op.platform \in DOMAIN last_op.prev_state
    /\ last_op.prev_state[last_op.platform] = last_op.severity

\* the records emitted for platform p before the step, oldest first
EmittedFor(p) == SelectSeq(last_op.prev_inserted, LAMBDA a : a.platform = p)

\* the step's assessment repeats the most recently emitted alert of its
\* platform, less than alert_cooldown minutes after it
RepeatsRecentAlert ==
    LET e == EmittedFor(last_op.platform)
    IN /\ e # <<>>
       /\ e[Len(e)].severity = last_op.severity
       /\ last_op.at - e[Len(e)].timestamp < alert_cooldown

\* C1: a should_alert assessment of severity critical is always emitted,
\* whatever the stored state and the elapsed time, and the platform's stored
\* severity and alert time are updated.
C1_CriticalNeverSuppressed ==
    (Processed /\ last_op.should_alert /\ last_op.severity = "critical")
        => (Emitted /\ StateRecorded)

\* C1 witness: a critical alert repeated inside the cooldown window, with a
\* subscriber connected, was emitted.
C1_Witness ==
    /\ Processed /\ last_op.should_alert /\ last_op.severity = "critical"
    /\ SameSeverityStored
    /\ last_op.at - last_op.prev_time[last_op.platform] < alert_cooldown
    /\ last_op.prev_active # <<>>
    /\ Emitted

\* C2: an assessment with should_alert false is never emitted, whatever its
\* severity: no record, no history entry, no health_alert message.
C2_NoAlertWhenShouldAlertFalse ==
    (Processed /\ ~last_op.should_alert) => NotEmitted

\* C2 witness: should_alert false with severity critical, a subscriber
\* connected and a stored state: nothing was emitted.
C2_Witness ==
    /\ Processed /\ ~last_op.should_alert /\ last_op.severity = "critical"
    /\ last_op.prev_active # <<>>
    /\ last_op.platform \in DOMAIN last_op.prev_state
    /\ NotEmitted

\* C3: a should_alert assessment whose severity is not critical and equals
\* the stored severity is emitted if and only if at least alert_cooldown
\* minutes have passed since the stored alert time (which is then present).
C3_CooldownIff ==
    (Processed /\ last_op.should_alert /\ last_op.severity # "critical"
       /\ SameSeverityStored)
        => /\ last_op.platform \in DOMAIN last_op.prev_time
           /\ IF last_op.at - last_op.prev_time[last_op.platform] >= alert_cooldown
              THEN Emitted ELSE NotEmitted

\* C3 witness: the same warning exactly alert_cooldown minutes after the
\* stored alert time was emitted.
C3_Witness ==
    /\ Processed /\ last_op.should_alert /\ last_op.severity = "warning"
    /\ SameSeverityStored
    /\ last_op.at - last_op.prev_time[last_op.platform] = alert_cooldown
    /\ Emitted

\* C4: after an alert, a should_alert false cycle and then the same
\* non-critical severity again, the alert is emitted even inside the cooldown
\* window of the earlier emission.
C4_RecurrenceAfterRecovery ==
    (Processed /\ last_op.should_alert /\ last_op.severity # "critical"
       /\ RepeatsRecentAlert
       /\ last_op.platform \in last_op.prev_recovered)
        => Emitted

\* C4 witness: a warning emitted, a recovery, and the warning again within
\* the window: emitted.
C4_Witness ==
    /\ Processed /\ last_op.should_alert /\ last_op.severity = "warning"
    /\ RepeatsRecentAlert
    /\ last_op.platform \in last_op.prev_recovered
    /\ Emitted

\* C5 as stated: a non-critical assessment that repeats the most recently
\* emitted severity of its platform inside the cooldown window is not emitted.
C5_Original ==
    (Processed /\ last_op.should_alert /\ last_op.severity # "critical"
       /\ RepeatsRecentAlert)
        => NotEmitted

\* C5 amended: a non-critical assessment that repeats the most recently
\* emitted severity of its platform inside the cooldown window is not
\* emitted, provided no should_alert false assessment of the platform was
\* processed since that emission.
C5_SuppressedUnlessRecovered ==
    (Processed /\ last_op.should_alert /\ last_op.severity # "critical"
       /\ RepeatsRecentAlert
       /\ last_op.platform \notin last_op.prev_recovered)
        => NotEmitted

\* C5 witness: the same warning inside the window, no recovery in between:
\* suppressed.
C5_Witness ==
    /\ Processed /\ last_op.should_alert /\ last_op.severity = "warning"
    /\ RepeatsRecentAlert
    /\ last_op.platform \notin last_op.prev_recovered
    /\ last_op.prev_active # <<>>
    /\ NotEmitted

\* C6: a non-critical should_alert assessment is emitted whatever the elapsed
\* time when no severity is stored for the platform or the stored severity
\* differs, and the stored severity and alert time are then those of the
\* emission.
C6_FirstOrChangedEmits ==
    (Processed /\ last_op.should_alert /\ last_op.severity # "critical"
       /\ ~SameSeverityStored)
        => (Emitted /\ StateRecorded)

\* C6 witness: a stored warning, and an info assessment less than
\* alert_cooldown minutes later: emitted.
C6_Witness ==
    /\ Processed /\ last_op.should_alert /\ last_op.severity = "info"
    /\ last_op.platform \in DOMAIN last_op.prev_state
    /\ last_op.prev_state[last_op.platform] = "warning"
    /\ last_op.at - last_op.prev_time[last_op.platform] < alert_cooldown
    /\ Emitted /\ StateRecorded

\* C7: after a should_alert false assessment of a platform neither a stored
\* severity nor a stored alert time is kept for it.
C7_NoCooldownStateAfterRecovery ==
    (Processed /\ ~last_op.should_alert)
        => /\ last_op.platform \notin DOMAIN last_alert_state
           /\ last_op.platform \notin DOMAIN last_alert_time

\* ------------------------------------------------ the connection manager
\* C8: the history holds at most max_history records and is exactly the most
\* recent min(n, max_history) of the n records handed to
\* broadcast_health_alert, oldest first.
C8_HistoryIsLastFifty ==
    LET n == Len(inserted)
        k == Len(alert_history)
    IN /\ k <= max_history
       /\ k = (IF n <= max_history THEN n ELSE max_history)
       /\ \A i \in 1..k : alert_history[i] = inserted[n - k + i]

\* C8 witness: after the record number max_history + 1 the oldest record is
\* gone and the second is the oldest of the history.
C8_Witness ==
    /\ Len(inserted) = max_history + 1
    /\ Len(alert_history) = max_history
    /\ alert_history[1] = inserted[2]
    /\ alert_history[1] # inserted[1]
    /\ alert_history[max_history] = inserted[max_history + 1]

\* C9: connect sends only to the new subscriber; when the history is not
\* empty its second message is the catch-up, which carries the most recent
\* min(history_catchup, length) records of the history, oldest first.
C9_CatchUpIsLastTen ==
    (last_op.op = "connect")
        => /\ \A i \in 1..Len(sent) : sent[i].to = last_op.ws
           /\ Len(sent) >= 1
           /\ sent[1].type = "connection"
           /\ IF alert_history = <<>>
              THEN Len(sent) = 1
              ELSE /\ Len(sent) = 2
                   /\ sent[2].type = "history"
                   /\ LET body == sent[2].body
                          n == Len(alert_history)
                          k == Len(body)
                      IN /\ k <= history_catchup
                         /\ k = (IF n <= history_catchup THEN n ELSE history_catchup)
                         /\ \A i \in 1..k : body[i] = alert_history[n - k + i]

\* C9 witness: a subscriber connects while another one is active and the
\* history is full: it alone is sent a catch-up of history_catchup records.
C9_Witness ==
    /\ last_op.op = "connect"
    /\ last_op.prev_active # <<>>
    /\ Len(alert_history) = max_history
    /\ Len(sent) = 2
    /\ sent[2].type = "history" /\ sent[2].ok /\ sent[2].to = last_op.ws
    /\ Len(sent[2].body) = history_catchup
    /\ sent[2].body[history_catchup] = alert_history[max_history]

\* C10: a broadcast in which some deliveries raise still sends the message
\* once to every subscriber that was active, delivers it to each one whose
\* delivery does not raise, does not raise itself, and returns with exactly
\* the subscribers whose delivery did not raise in the active set, in order.
C10_BroadcastIsolatesFailures ==
    (last_op.op = "broadcast")
        => /\ ~last_op.raised
           /\ Len(sent) = Len(last_op.prev_active)
           /\ \A i \in 1..Len(last_op.prev_active) :
                /\ i \in DOMAIN sent
                /\ sent[i].to = last_op.prev_active[i]
                /\ sent[i].type = last_op.type
                /\ sent[i].ok = (last_op.prev_active[i] \notin last_op.failing)
           /\ active_connections =
                SelectSeq(last_op.prev_active, LAMBDA c : c \notin last_op.failing)
           /\ DOMAIN connection_metadata = Range(active_connections)

\* C10 witness: three subscribers, the delivery to the second raises: the
\* third is still delivered to, and the first and third remain active.
C10_Witness ==
    /\ last_op.op = "broadcast"
    /\ Len(last_op.prev_active) = 3
    /\ last_op.prev_active[2] \in last_op.failing
    /\ last_op.prev_active[1] \notin last_op.failing
    /\ last_op.prev_active[3] \notin last_op.failing
    /\ Len(sent) = 3 /\ sent[3].ok /\ ~sent[2].ok
    /\ active_connections = <<last_op.prev_active[1], last_op.prev_active[3]>>

\* C11: when a broadcast pass ends, every connection that was in the active
\* list from the start of the pass to its end, whatever the other coroutines
\* did at the awaits of the pass, was sent the message exactly once.
C11_PassReachesEveryStableSubscriber ==
    (broadcast_pass.pc = "done")
        => \A c \in broadcast_pass.stable :
              Cardinality({k \in DOMAIN broadcast_pass.sent_to :
                              broadcast_pass.sent_to[k] = c}) = 1

\* the list without the connection ws
Others(active, ws) == SelectSeq(active, LAMBDA c : c # ws)

\* C12: disconnect(ws) for a connection that is not in the active list
\* changes neither the list nor the metadata; after any disconnect(ws) a
\* second disconnect(ws) changes nothing; the other connections keep their
\* place and their metadata, and the alert history is unchanged.
C12_DisconnectStep ==
    (last_op'.op = "disconnect")
        => LET ws == last_op'.ws
           IN /\ (ws \notin Range(active_connections))
                    => /\ active_connections' = active_connections
                       /\ connection_metadata' = connection_metadata
              /\ ws \notin Range(active_connections')
              /\ Disconnect(ConnState', ws) = ConnState'
              /\ active_connections' = Others(active_connections, ws)
              /\ \A c \in Range(active_connections) \ {ws} :
                    /\ c \in DOMAIN connection_metadata'
                    /\ connection_metadata'[c] = connection_metadata[c]
              /\ alert_history' = alert_history

C12_DisconnectIdempotent == [][C12_DisconnectStep]_vars

\* C12 witness: disconnect of a connection that is not active, while two
\* others are active and the history is not empty, left both in place.
C12_Witness ==
    /\ last_op.op = "disconnect"
    /\ last_op.ws \notin Range(last_op.prev_active)
    /\ Len(last_op.prev_active) = 2
    /\ active_connections = last_op.prev_active
    /\ DOMAIN connection_metadata = Range(active_connections)
    /\ alert_history # <<>>

\* the connections that are accepted and not removed after the last step,
\* from those before it: connect accepts ws, and a send to ws that raises
\* removes it; disconnect removes ws; a broadcast removes the connections
\* whose send raises
AcceptedNotRemoved ==
    LET before == Range(last_op.prev_active)
    IN CASE last_op.op = "connect" ->
                IF \A k \in DOMAIN sent : sent[k].ok
                THEN before \cup {last_op.ws} ELSE before \ {last_op.ws}
         [] last_op.op = "disconnect" -> before \ {last_op.ws}
         [] last_op.op = "personal" ->
                IF last_op.failed THEN before \ {last_op.ws} ELSE before
         [] last_op.op = "broadcast" -> before \ last_op.failing
         [] OTHER -> {}

\* C13: after any sequence of connect, disconnect, broadcast and personal
\* sends the active list holds exactly the connections accepted and not
\* removed since, each once, and the metadata has a record for each of them
\* and for no other connection.
C13_ActiveIsAcceptedNotRemoved ==
    /\ Range(active_connections) = AcceptedNotRemoved
    /\ Cardinality(Range(active_connections)) = Len(active_connections)
    /\ DOMAIN connection_metadata = Range(active_connections)

\* C13 witness: with three connections active a personal send to one of them
\* raised; the two others are active, each with its metadata record.
C13_Witness ==
    /\ last_op.op = "personal" /\ last_op.failed
    /\ Len(last_op.prev_active) = 3
    /\ Len(active_connections) = 2
    /\ last_op.ws \notin Range(active_connections)
    /\ DOMAIN connection_metadata = Range(active_connections)

\* ------------------------------------------------------ the analyzer
\* analyze_health has returned or raised
Analyzed == analyzer.op = "return"

\* the collaborator raised, timed out, or answered text that json.loads,
\* after the fence stripping, cannot decode
CollaboratorFailed ==
    \/ analyzer.response.outcome \in {"raises", "timeout"}
    \/ /\ analyzer.response.outcome = "text"
       /\ \/ analyzer.response.payload.kind # "json"
          \/ analyzer.response.lead \notin {<<>>, <<"fence">>, <<"fence", "json">>}

\* the AlertAssessment shape
HasAssessmentShape(a) ==
    /\ DOMAIN a = AssessmentFields
    /\ a.should_alert \in BOOLEAN
    /\ a.severity \in Severities
    /\ a.issue_detected \in BOOLEAN

\* C14: when the collaborator raises, times out or answers text that cannot
\* be decoded, analyze_health does not raise: it returns an assessment, which
\* depends on the metrics only.
C14_CollaboratorFailureFallsBack ==
    (Analyzed /\ CollaboratorFailed)
        => /\ ~analyzer.raised
           /\ HasAssessmentShape(analyzer.analysis)
           /\ analyzer.analysis = Fallback(analyzer.health_data)

\* C14 witness: the collaborator call raised for a healthy platform and the
\* caller was returned the "healthy" assessment.
C14_Witness ==
    /\ Analyzed
    /\ analyzer.response.outcome = "raises"
    /\ analyzer.health_data.status = "healthy"
    /\ ~analyzer.raised
    /\ HasAssessmentShape(analyzer.analysis)
    /\ ~analyzer.analysis.should_alert

\* the platform's response time is more than slow_factor times its baseline
Slow(h) == h.response_time > slow_factor * baselines[h.platform].response_time

\* more than rate_alert_percent percent of the rate limit is used
NearRateLimit(h) ==
    h.rate_limit_total # 0
        /\ 100 * h.rate_limit_used > rate_alert_percent * h.rate_limit_total

\* C15: when the collaborator fails the assessment follows the first rule
\* that matches: down gives critical, else slow gives warning, else near the
\* rate limit gives info, all three with should_alert true; else info with
\* should_alert false.
C15_FallbackRuleOrder ==
    (Analyzed /\ CollaboratorFailed /\ ~analyzer.raised)
        => LET h == analyzer.health_data
               a == analyzer.analysis
           IN /\ {"should_alert", "severity"} \subseteq DOMAIN a
              /\ <<a.severity, a.should_alert>> =
                    (CASE h.status = "down" -> <<"critical", TRUE>>
                       [] h.status # "down" /\ Slow(h) -> <<"warning", TRUE>>
                       [] h.status # "down" /\ ~Slow(h) /\ NearRateLimit(h)
                            -> <<"info", TRUE>>
                       [] OTHER -> <<"info", FALSE>>)

\* C15 witness: a platform that is down, slow and near its rate limit, with
\* the collaborator timing out, is assessed critical.
C15_Witness ==
    /\ Analyzed
    /\ analyzer.response.outcome = "timeout"
    /\ analyzer.health_data.status = "down"
    /\ Slow(analyzer.health_data)
    /\ NearRateLimit(analyzer.health_data)
    /\ analyzer.analysis.severity = "critical"
    /\ analyzer.analysis.should_alert

\* C16: whatever the collaborator answers, the value analyze_health returns
\* has the AlertAssessment shape, and an answer that is not an object of
\* that shape is replaced by the fallback assessment.
C16_ReturnHasAssessmentShape ==
    (Analyzed /\ ~analyzer.raised)
        => /\ HasAssessmentShape(analyzer.analysis)
           /\ (analyzer.response.outcome = "text"
                 /\ analyzer.response.payload \notin
                        {[kind |-> "json", value |-> v] : v \in Assessments})
                => analyzer.analysis = Fallback(analyzer.health_data)

\* ------------------------------------------------------ the scheduler
\* C17: at no time are two executions of check_health_and_alert in progress,
\* the one start_async awaits included.
C17_NoOverlappingCycles == Cardinality(InFlight) <= 1

\* C18: an exception raised inside a cycle ends that cycle and nothing else:
\* the scheduler is as running as it was, its job is still registered, and
\* when its timer is armed the next tick can run a cycle.
C18_ExceptionCaughtInCycle ==
    (last_op.op = "cycle_error")
        => /\ scheduler_running = last_op.was_running
           /\ jobs = last_op.prev_jobs
           /\ (last_op.slot = "timer") => pc = "idle"
           /\ (last_op.slot = "initial") => initial.pc = "idle"
           /\ (TimerArmed /\ pc = "idle" /\ cycles < MaxLifeCycles)
                 => ENABLED TimerFires(LifeConnections, LifeResults)

\* C18 witness: a cycle started by the timer raised at its second platform
\* while the scheduler was running; the scheduler runs, the timer is armed
\* and a further cycle can start.
C18_Witness ==
    /\ last_op.op = "cycle_error" /\ last_op.slot = "timer"
    /\ last_op.platform = LifePlatforms[2]
    /\ last_op.was_running /\ scheduler_running
    /\ TimerArmed /\ pc = "idle" /\ cycles < MaxLifeCycles
    /\ ENABLED TimerFires(LifeConnections, LifeResults)

\* C19: the scheduler is stopped or running, with at most one health_check
\* job and exactly one, on the 5-minute interval, when running; start() from
\* stopped gives running with the job registered, start() while running
\* changes nothing; stop() from running gives stopped with no timer armed,
\* stop() while stopped changes nothing; no other step changes either.
C19_LifecycleStep ==
    /\ scheduler_running' \in BOOLEAN
    /\ HealthCheckJobs(jobs') <= 1
    /\ scheduler_running' => jobs' = <<HealthCheckJob>>
    /\ (last_op'.op = "start")
          => /\ scheduler_running'
             /\ TimerArmed'
             /\ scheduler_running => jobs' = jobs
    /\ (last_op'.op = "stop")
          => /\ ~scheduler_running'
             /\ ~TimerArmed'
             /\ ~scheduler_running => jobs' = jobs
    /\ (last_op'.op \notin {"start", "stop"})
          => UNCHANGED <<scheduler_running, jobs>>

C19_StartStopStateMachine == [][C19_LifecycleStep]_vars

\* C19 witness: start() on a stopped scheduler whose job store still held the
\* job of an earlier run: running, with one health_check job.
C19_Witness ==
    /\ last_op.op = "start"
    /\ ~last_op.was_running
    /\ last_op.prev_jobs # <<>>
    /\ scheduler_running
    /\ jobs = <<HealthCheckJob>>

\* what a step may do to the cycle the timer started: nothing, or process
\* the platform at idx and go on to the next or finish after the last, or
\* end because the processing of that platform raised
TimerCycleStep ==
    (pc = "alerts")
        => \/ UNCHANGED <<pc, results, idx>>
           \/ /\ last_op'.op = "process"
              /\ last_op'.platform = results[idx].platform
              /\ IF idx < Len(results)
                 THEN pc' = "alerts" /\ idx' = idx + 1 /\ results' = results
                 ELSE pc' = "idle"
           \/ /\ last_op'.op = "cycle_error"
              /\ ~IsDict(results[idx].analysis)
              /\ pc' = "idle"

\* the same for the cycle start_async awaits
InitialCycleStep ==
    (initial.pc = "alerts")
        => \/ initial' = initial
           \/ /\ last_op'.op = "process"
              /\ last_op'.platform = initial.results[initial.idx].platform
              /\ IF initial.idx < Len(initial.results)
                 THEN initial' = [initial EXCEPT !.idx = @ + 1]
                 ELSE initial'.pc = "idle"
           \/ /\ last_op'.op = "cycle_error"
              /\ ~IsDict(initial.results[initial.idx].analysis)
              /\ initial'.pc = "idle"

\* stop() touches neither a cycle in progress nor the cooldown state
StopLeavesCycles ==
    (last_op'.op = "stop")
        => UNCHANGED <<pc, results, idx, initial, last_alert_state, last_alert_time>>

FilterEmits(state, time, at, p, s) ==
    \/ s = "critical"
    \/ p \notin DOMAIN state
    \/ state[p] # s
    \/ p \notin DOMAIN time
    \/ at - time[p] >= alert_cooldown

\* the result r of a triggered check was handled as a cycle handles it: an
\* assessment the filter passes is recorded, stored and sent; should_alert
\* false clears the platform's stored severity
HandledAsInCycle(r) ==
    LET reported == DictGet(r.analysis, "should_alert", FALSE)
        severity == DictGet(r.analysis, "severity", "info")
        alert == [platform |-> r.platform, severity |-> severity,
                  timestamp |-> last_op.at]
    IN /\ ~reported => r.platform \notin DOMAIN last_alert_state
       /\ (reported /\ FilterEmits(last_op.prev_state, last_op.prev_time,
                                    last_op.at, r.platform, severity))
             => /\ alert \in Range(alert_history)
                /\ Len(inserted) > Len(last_op.prev_inserted)
                /\ r.platform \in DOMAIN last_alert_state
                /\ last_alert_state[r.platform] = severity
                /\ \E i \in 1..Len(sent) :
                      sent[i].type = "health_alert" /\ sent[i].body = <<alert>>

\* C21: the manual trigger has the effects of one timer-driven cycle: the
\* last-results snapshot is the list it probed, one status update carrying
\* that list goes to each subscriber, and every platform's result goes
\* through the analyzer's verdict and the cooldown filter (stored state,
\* history and health_alert messages updated as in a cycle).
C21_TriggerRunsOneCycle ==
    last_op.op = "trigger" =>
        /\ last_health_check = last_op.results
        /\ \A i \in 1..Len(last_op.prev_active) :
              \E k \in 1..Len(sent) :
                 /\ sent[k].to = last_op.prev_active[i]
                 /\ sent[k].type = "health_update"
                 /\ sent[k].body = last_op.results
        /\ \A r \in Range(last_op.results) : HandledAsInCycle(r)

\* ------------------------------------------------- the status update
\* the health_update messages among msgs
StatusUpdates(msgs) == SelectSeq(msgs, LAMBDA m : m.type = "health_update")

\* A step that begins a cycle sends one health_update, carrying the cycle's
\* result list with an entry for every platform, to each subscriber that was
\* active; no other step of the cycle sends a health_update.
C22_Step ==
    LET updates == StatusUpdates(sent')
    IN IF cycles' = cycles + 1
       THEN /\ Len(updates) = Len(active_connections)
            /\ \A i \in 1..Len(updates) :
                  /\ updates[i].to = active_connections[i]
                  /\ updates[i].body = results'
            /\ [i \in 1..Len(results') |-> results'[i].platform] = LifePlatforms
            /\ last_op'.op = "broadcast" /\ last_op'.type = "health_update"
       ELSE updates = <<>> \/ UNCHANGED sent

\* C22: every cycle broadcasts exactly one status update, a health_update
\* carrying that cycle's results for all platforms, whether zero, some or
\* all platforms emit an alert in that cycle.
C22_OneStatusUpdatePerCycle == [][C22_Step]_vars

\* C22 witness: a cycle in which the first platform emitted an alert and the
\* second emits none has ended; its one status update went to the subscriber
\* at the cycle's first step.
C22_Witness ==
    /\ Processed /\ pc = "idle"
    /\ last_op.platform = LifePlatforms[2]
    /\ ~last_op.should_alert
    /\ last_op.prev_active # <<>>
    /\ last_op.prev_inserted # <<>>
    /\ last_op.prev_inserted[Len(last_op.prev_inserted)].platform = LifePlatforms[1]
    /\ last_health_check = results
    /\ sent = <<>>

\* ------------------------------------------------- a delivery that hangs
\* C23: a subscriber whose delivery never completes does not stall the
\* others: a broadcast that is awaiting a send_json eventually returns to
\* the cycle that issued it, and every other subscriber that is active
\* while the broadcast is in progress is eventually sent the message (or
\* leaves the active list, or the pass ends).
C23_HungSubscriberDoesNotStall ==
    /\ (broadcast_pass.pc = "await") ~> (broadcast_pass.pc = "done")
    /\ \A c \in HistoryConnections \ {HungConnection} :
          (broadcast_pass.pc = "await" /\ c \in Range(active_connections))
             ~> \/ c \in Range(broadcast_pass.sent_to)
                \/ c \notin Range(active_connections)
                \/ broadcast_pass.pc = "done"

\* ------------------------------------------------- a platform that is down
\* the entry of the cycle's result list that the last step processed
ProcessedResult ==
    results[CHOOSE k \in 1..Len(results) : results[k].platform = last_op.platform]

\* the processed platform's probe reported down and the collaborator was
\* unavailable
DownAndCollaboratorUnavailable ==
    /\ Processed
    /\ ProcessedResult.status = "down"
    /\ ProcessedResult.collaborator = "raises"

\* C24: a probe that fails is reported as status down with error rate 100;
\* and in every cycle in which a platform's probe reports down while the
\* collaborator is unavailable, the platform's assessment has should_alert
\* true and severity critical, the filter emits it whatever the stored
\* state, the record is the newest of the history and one health_alert
\* carrying it is sent to each active subscriber.
C24_DownAlertsEveryCycle ==
    /\ \A k \in 1..Len(results) :
          results[k].outcome # "ok"
             => results[k].status = "down" /\ results[k].error_rate = 100
    /\ DownAndCollaboratorUnavailable
          => /\ last_op.should_alert
             /\ last_op.severity = "critical"
             /\ Emitted
             /\ StateRecorded

\* C24 witness: in the second cycle the probe of a platform raised again,
\* the collaborator was unavailable, the stored severity was already
\* critical, a subscriber was connected, and the alert was emitted again.
C24_Witness ==
    /\ DownAndCollaboratorUnavailable
    /\ ProcessedResult.outcome = "error"
    /\ cycles = 2
    /\ SameSeverityStored
    /\ last_op.prev_inserted # <<>>
    /\ last_op.prev_active # <<>>
    /\ Emitted

\* ------------------------------------------------- the last-results snapshot
\* the list v is the whole result list of one cycle: one entry per platform,
\* in order, all probed in the same cycle
WholeListOfOneCycle(v) ==
    /\ [i \in 1..Len(v) |-> v[i].platform] = LifePlatforms
    /\ \A i, j \in 1..Len(v) : v[i].last_check = v[j].last_check

\* C25: whatever the position of a running cycle, get_last_results returns
\* the empty list of construction or the whole result list of one cycle,
\* never entries of two cycles and never a list still being built; a cycle
\* that fails before it stores leaves the snapshot as it was.
C25_SnapshotIsOneCycle ==
    /\ last_op.op = "read"
          => (last_op.value = <<>> \/ WholeListOfOneCycle(last_op.value))
    /\ last_op.op = "probe_error" => last_health_check = last_op.prev_snapshot

\* C25 witness: while the second cycle has analyzed one platform of two, a
\* reader is returned the whole list of the first cycle.
C25_Witness ==
    /\ last_op.op = "read"
    /\ initial.pc = "probe"
    /\ Len(initial.results) = 1
    /\ initial.results[1].last_check = 2
    /\ Len(last_op.value) = Len(LifePlatforms)
    /\ last_op.value[1].last_check = 1
    /\ last_op.value[1].analysis # initial.results[1].analysis

\* ------------------------------------------------- who writes the history
\* A connect, a disconnect, a ping and a status broadcast leave the alert
\* history as it is; a step that changes the history handed one record to
\* broadcast_health_alert, and that record is the newest entry.
C26_Step ==
    /\ (last_op' # last_op /\ last_op'.op \in {"connect", "disconnect", "broadcast"})
          => alert_history' = alert_history
    /\ alert_history' # alert_history
          => /\ last_op'.op = "process"
             /\ Len(inserted') = Len(inserted) + 1
             /\ alert_history' =
                   AppendHistory(alert_history, inserted'[Len(inserted')])

\* C26: the alert history changes only through broadcast_health_alert; the
\* status broadcast, a ping, connect and disconnect leave it unchanged.
C26_HistoryChangesOnlyByAlert == [][C26_Step]_vars

\* C26 witness: with a record in the history, a status broadcast has just
\* gone to a subscriber and the history still holds exactly the records
\* handed to broadcast_health_alert.
C26_Witness ==
    /\ last_op.op = "broadcast" /\ last_op.type = "health_update"
    /\ last_op.prev_active # <<>>
    /\ sent # <<>>
    /\ alert_history # <<>>
    /\ alert_history = inserted

\* ------------------------------------------------- append, then send
\* C27: the record is in the history before its envelope goes out: whenever
\* a health_alert is sent to a subscriber, the record it carries is the
\* newest entry of the history; and every record of the history was handed
\* to broadcast_health_alert.
C27_AppendedBeforeSent ==
    /\ \A k \in 1..Len(sent) :
          sent[k].type = "health_alert"
             => /\ alert_history # <<>>
                /\ sent[k].body = <<alert_history[Len(alert_history)]>>
    /\ Range(alert_history) \subseteq Range(inserted)

\* ------------------------------------------------- a suppressed repeat
\* the last step processed an assessment that asks for an alert, and the
\* filter suppressed it
Suppressed == Processed /\ last_op.should_alert /\ NotEmitted

\* the issue has been reported on every cycle since the platform's last
\* emission, with the severity of that emission, which is not critical
UnchangedIssueReported ==
    LET e == EmittedFor(last_op.platform)
    IN /\ Processed /\ last_op.should_alert
       /\ last_op.severity # "critical"
       /\ e # <<>>
       /\ e[Len(e)].severity = last_op.severity
       /\ last_op.platform \notin last_op.prev_recovered

\* minutes since the platform's last emission
SinceLastEmission ==
    LET e == EmittedFor(last_op.platform)
    IN last_op.at - e[Len(e)].timestamp

\* C28: a suppression happens only for the stored non-critical severity
\* inside the cooldown window, and it leaves the platform's stored severity,
\* its alert time and the history unchanged and sends nothing; so when an
\* issue of unchanged non-critical severity is reported on every cycle, a
\* cycle less than alert_cooldown minutes after the last emission does not
\* emit and a cycle at least alert_cooldown minutes after it does.
C28_SuppressionKeepsCooldown ==
    /\ Suppressed
          => /\ last_op.severity # "critical"
             /\ SameSeverityStored
             /\ last_op.at - last_op.prev_time[last_op.platform] < alert_cooldown
             /\ last_alert_state = last_op.prev_state
             /\ last_alert_time = last_op.prev_time
             /\ alert_history = last_op.prev_history
             /\ sent = <<>>
    /\ UnchangedIssueReported
          => IF SinceLastEmission >= alert_cooldown
             THEN Emitted /\ StateRecorded
             ELSE NotEmitted

\* C28 witness: a warning emitted at minute 0 was reported again and
\* suppressed inside the window, and reported again at minute 15, where it
\* was emitted once more.
C28_Witness ==
    /\ UnchangedIssueReported
    /\ last_op.severity = "warning"
    /\ cycles = 3
    /\ Len(last_op.prev_inserted) = 1
    /\ last_op.prev_inserted[1].timestamp = 0
    /\ last_op.at = alert_cooldown
    /\ Emitted

\* ------------------------------------------------- automatic client ids
\* the client id of the active connection c was assigned by connect (the
\* caller supplied none)
AutoAssigned(c) ==
    /\ c \in DOMAIN connection_metadata
    /\ connection_metadata[c].client_id \notin ClientIds

\* C29: the client ids connect assigns automatically are distinct among the
\* subscribers that are active at the same time.
C29_AutoClientIdsDistinct ==
    \A c1, c2 \in Range(active_connections) :
        (c1 # c2 /\ AutoAssigned(c1) /\ AutoAssigned(c2))
            => connection_metadata[c1].client_id # connection_metadata[c2].client_id

\* ------------------------------------------------- a cycle that raises
\* the step is one in which _process_platform_alert raised
RaiseStep == last_op' # last_op /\ last_op'.op = "cycle_error"

\* A step in which processing a platform's result raises ends the cycle at
\* that platform (its slot is idle afterwards, so no later platform of the
\* list is processed in that cycle) and changes nothing else: the snapshot,
\* the stored severities and alert times, the history and the records
\* handed to broadcast_health_alert stay as the earlier steps of the cycle
\* left them.
C30_Step ==
    RaiseStep =>
        /\ UNCHANGED <<last_health_check, last_alert_state, last_alert_time,
                       alert_history, inserted, recovered>>
        /\ IF last_op'.slot = "timer"
           THEN /\ pc = "alerts"
                /\ results[idx].platform = last_op'.platform
                /\ pc' = "idle" /\ idx' = 0
                /\ UNCHANGED initial
           ELSE /\ initial.pc = "alerts"
                /\ initial.results[initial.idx].platform = last_op'.platform
                /\ initial' = NoCycle
                /\ UNCHANGED <<pc, idx>>

\* C30: a raise while one platform's result is processed ends the cycle at
\* that platform, without rollback of what the cycle already did.
C30_RaiseEndsCycleWithoutRollback == [][C30_Step]_vars

\* C30 witness: in the first cycle the first platform's warning was emitted
\* and stored, then processing the second platform raised; the cycle is
\* over, and the snapshot, the stored severity and the history entry of the
\* first platform are still there.
C30_Witness ==
    /\ last_op.op = "cycle_error" /\ last_op.slot = "timer"
    /\ cycles = 1
    /\ last_op.platform = LifePlatforms[2]
    /\ pc = "idle"
    /\ last_health_check = results
    /\ LifePlatforms[1] \in DOMAIN last_alert_state
    /\ last_alert_state[LifePlatforms[1]] = "warning"
    /\ Len(alert_history) = 1
    /\ alert_history[1].platform = LifePlatforms[1]

====
